---- MODULE Spec2Model ----
(***************************************************************************)
(* The change-event stream of pcloud-async-api (src/src/events.rs):        *)
(* DiffRequestBuilder::stream spawns a driver task that polls the /diff    *)
(* endpoint in a loop (stream_once / get) and publishes the entries of     *)
(* each batch into a bounded tokio mpsc channel; filter_stream spawns a    *)
(* task that forwards the accepted entries of one Receiver into another.   *)
(*                                                                         *)
(* A DiffEntry is modelled by its diffid.  The /diff endpoint is the       *)
(* environment: every fetch may return any batch (Diff) over the bounded   *)
(* cursor range, time out, or fail with a non-timeout error.               *)
(***************************************************************************)
EXTENDS Integers, Sequences, FiniteSets

\* ------------------------------------------------------------------ bounds
\* Highest diffid the service hands out in the model.
MaxCursor == 2
\* Longest entries array of one Diff.
MaxBatch == 2
\* Cap on the number of entries enqueued over one behaviour (history length).
MaxSent == 2
\* The same cap for the pipeline that fills the filter's output channel: the
\* capacities of both channels, the entry the filter holds, and one more.
PipeMaxSent == 131
\* Largest files / totalfiles count of a save-zip progress response.
MaxFiles == 1
\* Cap on the number of progress requests of one save-zip task.
MaxPolls == 3
\* Most clones of one PCloudClient the program holds besides the driver's.
MaxClones == 2

\* ------------------------------------------------------- program constants
\* Option::None of the Option<u64> / Option<String> / Option<Duration> fields.
None == -1
\* "Without limit pCloud returns ~100 entries": default capacity in stream().
DefaultChannelSize == 128
\* let channel_size = 128 in filter_stream.
FilterChannelSize == 128
\* mpsc::channel::<SaveZipProgressResponse>(32).
ProgressChannelSize == 32

Cursors == 1..MaxCursor

\* A deserialized Diff: the high-water diffid and the entries (by diffid).
RECURSIVE SeqsUpTo(_)
SeqsUpTo(n) ==
    IF n = 0 THEN {<< >>}
    ELSE LET shorter == SeqsUpTo(n - 1)
         IN  shorter \cup {Append(s, c) : s \in {t \in shorter : Len(t) = n - 1}, c \in Cursors}

Diffs == [diffid : 0..MaxCursor, entries : SeqsUpTo(MaxBatch)]

\* The builder configurations a caller hands to stream(): with and without a
\* start cursor, with and without a limit, the remaining setters (after,
\* only_last, block, block_timeout) all called or none called.
Unset == [after |-> None, last |-> None, block |-> FALSE, timeout |-> None]
AllSet == [after |-> 1, last |-> 1, block |-> TRUE, timeout |-> 1]

Builder(cursor, limit, o) ==
    [ diff_id |-> cursor, after |-> o.after, last |-> o.last, block |-> o.block,
      timeout |-> o.timeout, limit |-> limit ]

Builders ==
    { Builder(None, None, Unset), Builder(None, 1, AllSet), Builder(None, 2, Unset),
      Builder(0, None, AllSet), Builder(0, 1, Unset), Builder(0, 2, AllSet),
      Builder(None, 0, Unset) }

\* The configurations and predicates filter_stream is composed with.
FilterBuilders == { Builder(None, 1, Unset), Builder(0, None, Unset) }

Predicates ==
    { {}, {c \in Cursors : c % 2 = 0}, {c \in Cursors : c % 2 = 1}, Cursors }

VARIABLES
    cfg,          \* self: the DiffRequestBuilder stream() was called on
    filtered,     \* TRUE when the stream's Receiver was handed to filter_stream
    accept,       \* the diffids the filter predicate accepts
    channel_size, \* capacity of the stream's channel
    pc,           \* position of the driver task ("panicked": stream() panicked)
    next_diff_id, \* the driver's cursor
    query,        \* the query parameters of the request in flight
    diff_id,      \* stream_once's copy of the cursor its request was built with
    pending,      \* entries of the current batch not yet visited by the for loop
    batch_diffid, \* diffs.diffid of the last batch received
    chan,         \* the stream's channel: its buffer and whether its Receiver is closed
    fpc,          \* position of the filter task
    entry,        \* the entry the filter task is forwarding
    out,          \* the filter's output channel
    handle,       \* the consumer's Receiver: "open", "closed" or "dropped"
                  \* ("none": stream() returned no Receiver)
    delivered,    \* history: what the consumer pulled from its handle
    eos,          \* history: the consumer's recv() returned None
    sent,         \* history: every entry enqueued on the stream's channel
    hist,         \* history: facts about the fetches so far
    zip,          \* the save-zip progress task, its channel and its consumer
    session       \* the login session the stream's client belongs to

streamVars == << cfg, filtered, accept, channel_size, pc, next_diff_id, query, diff_id,
                 pending, batch_diffid, chan, fpc, entry, out, handle,
                 delivered, eos, sent, hist >>

vars == << cfg, filtered, accept, channel_size, pc, next_diff_id, query, diff_id,
           pending, batch_diffid, chan, fpc, entry, out, handle,
           delivered, eos, sent, hist, zip, session >>

\* ------------------------------------------------------------ pure helpers
\* stream(): "If a batch size is set, channel size is batch size".
ChannelSize(self) ==
    IF self.limit # None THEN self.limit ELSE DefaultChannelSize

NextBuilderKeepsAfter(self, cursor) ==
    [ after   |-> self.after,
      diff_id |-> cursor,
      block   |-> TRUE,
      last    |-> self.last,
      limit   |-> self.limit,
      timeout |-> self.timeout ]

NextBuilderKeepsBlock(self, cursor) ==
    [ after   |-> IF cursor # None THEN None ELSE self.after,
      diff_id |-> cursor,
      block   |-> self.block,
      last    |-> self.last,
      limit   |-> self.limit,
      timeout |-> self.timeout ]

\* stream(): the builder of the next request, from self and the cursor.
NextBuilder(self, cursor) ==
    [ after   |-> IF cursor # None THEN None ELSE self.after,
      diff_id |-> cursor,
      block   |-> TRUE,
      last    |-> self.last,
      limit   |-> self.limit,
      timeout |-> self.timeout ]

QueryBlocks(self) ==
    [ diffid  |-> self.diff_id,
      after   |-> self.after,
      last    |-> self.last,
      limit   |-> self.limit,
      block   |-> self.block,
      timeout |-> self.timeout ]

\* get(): the query parameters (None: not sent) and the request timeout.
Query(self) ==
    [ diffid  |-> self.diff_id,
      after   |-> self.after,
      last    |-> self.last,
      limit   |-> self.limit,
      block   |-> (self.block /\ self.diff_id # None),
      timeout |-> self.timeout ]

AcceptsAll(old_diff_id, e) == TRUE

AcceptsNotBelow(old_diff_id, e) ==
    IF old_diff_id # None THEN e >= old_diff_id ELSE TRUE

\* stream_once(): the test an entry passes before tx.send(entry).
Accepts(old_diff_id, e) ==
    IF old_diff_id # None THEN e > old_diff_id ELSE TRUE

StreamOnceResultStale(old_diff_id, diffid, has_entries) == old_diff_id

StreamOnceResultReset(old_diff_id, diffid, has_entries) ==
    IF has_entries THEN diffid ELSE None

\* stream_once(): the Ok value, which stream() stores in next_diff_id.
StreamOnceResult(old_diff_id, diffid, has_entries) ==
    IF has_entries THEN diffid ELSE old_diff_id

\* The ways get() fails, all of them a reqwest::Error: the request timed out
\* (connecting, waiting or reading the body); send() failed otherwise; or
\* json::<Diff>() could not decode the body (malformed, or an error envelope
\* of the service, which has no diffid).
Errors == {"timeout", "transport", "decode"}

\* reqwest::Error::is_timeout()
IsTimeout(err) == err = "timeout"

RetriedUnlessDecode(err) == err # "decode"

RetriedAlways(err) == TRUE

RetriedNever(err) == FALSE

\* stream(): an Err is retried only when it is a reqwest timeout.
Retried(err) == IsTimeout(err)

\* The entries of a batch that stream_once would send for the request cursor.
Accepted(old_diff_id, entries) ==
    SelectSeq(entries, LAMBDA e : Accepts(old_diff_id, e))

HasPermitUnbounded(c, capacity) == TRUE

\* mpsc channel: a send completes when the Receiver is open and a permit is free.
HasPermit(c, capacity) == Len(c.buf) < capacity

\* filter_stream(): the predicate.
filter(e) == e \in accept

\* No request is in flight.
NoQuery ==
    [ diffid |-> None, after |-> None, last |-> None, limit |-> None,
      block |-> FALSE, timeout |-> None ]

EmptyChannel == [buf |-> << >>, closed |-> FALSE]

\* ---------------------------------------------------- history bookkeeping
StrictlyIncreasing(s) == \A i \in 1..(Len(s) - 1) : s[i] < s[i + 1]

\* A batch as the data model describes it, answering the cursor c: entries in
\* strictly increasing diffid order, the high-water diffid not below any of
\* them nor below c.  Its entries may repeat those of earlier batches.
WellFormed(c, diffs) ==
    /\ StrictlyIncreasing(diffs.entries)
    /\ \A i \in 1..Len(diffs.entries) : diffs.entries[i] <= diffs.diffid
    /\ c # None => diffs.diffid >= c

\* A batch as a service that loses and repeats nothing answers the cursor c:
\* the events c+1 .. diffid, in order.
Faithful(c, diffs) ==
    /\ c # None
    /\ diffs.diffid >= c
    /\ Len(diffs.entries) = diffs.diffid - c
    /\ \A i \in 1..Len(diffs.entries) : diffs.entries[i] = c + i

Bump(n) == IF n < 2 THEN n + 1 ELSE 2

InitHist(cap) ==
    [ wellFormed |-> TRUE,    \* every batch so far was WellFormed
      faithful   |-> TRUE,    \* every batch so far was Faithful
      lastKind   |-> "none",  \* outcome of the fetch just completed ("retried":
                              \* entries, on the retry of a request that timed out)
      returnedAC |-> 0,       \* fetches that returned after the close (max 2)
      timedOut   |-> NoQuery, \* the query of the request that just timed out
      err        |-> "none",  \* the error the fetch just completed failed with
      outstanding |-> 0,      \* requests sent and not yet returned (max 2)
      cap        |-> cap ]    \* how many entries the history may record

\* No save-zip request was made.
NoZip == [pc |-> "off"]

\* The client was made with_oauth: session_token is Arc::new(None).
NoSession == [state |-> "none"]

\* ------------------------------------------------------------------- Init
\* mpsc::channel(0) panics ("mpsc bounded channel requires buffer > 0"): no
\* task is spawned and no Receiver is returned.
Panics(self) == ChannelSize(self) = 0

Start(self, piped, predicate, cap) ==
    /\ cfg = self
    /\ filtered = piped
    /\ accept = predicate
    /\ channel_size = ChannelSize(self)
    /\ pc = IF Panics(self) THEN "panicked" ELSE "check"
    /\ next_diff_id = self.diff_id
    /\ query = NoQuery
    /\ diff_id = None
    /\ pending = << >>
    /\ batch_diffid = None
    /\ chan = EmptyChannel
    /\ fpc = IF piped THEN "recv" ELSE "off"
    /\ entry = None
    /\ out = EmptyChannel
    /\ handle = IF Panics(self) THEN "none" ELSE "open"
    /\ delivered = << >>
    /\ eos = FALSE
    /\ sent = << >>
    /\ hist = InitHist(cap)

\* let mut events = pcloud.diff()...stream();
Init ==
    /\ \E self \in Builders : Start(self, FALSE, Cursors, MaxSent)
    /\ zip = NoZip
    /\ session = NoSession

\* let mut events = filter_stream(pcloud.diff()...stream(), predicate);
FilterInit ==
    /\ \E self \in FilterBuilders, predicate \in Predicates :
            Start(self, TRUE, predicate, MaxSent)
    /\ zip = NoZip
    /\ session = NoSession

\* ------------------------------------------------------- the driver task
\* The fetch history is kept for a stream its consumer reads directly.
Track(h) == IF filtered THEN hist ELSE h

\* The stream's Sender is dropped when the driver task has ended.
SenderDropped == pc = "done"

LoopForever ==
    /\ pc = "check"
    /\ pc' = "issue"
    /\ UNCHANGED << zip, session, cfg, filtered, accept, channel_size, next_diff_id, query, diff_id,
                    pending, batch_diffid, chan, fpc, entry, out, handle,
                    delivered, eos, sent, hist >>

\* while !tx.is_closed()
LoopCheck ==
    /\ pc = "check"
    /\ pc' = IF chan.closed THEN "done" ELSE "issue"
    /\ UNCHANGED << zip, session, cfg, filtered, accept, channel_size, next_diff_id, query, diff_id,
                    pending, batch_diffid, chan, fpc, entry, out, handle,
                    delivered, eos, sent, hist >>

IssueEager ==
    /\ pc \in {"issue", "inflight"}
    /\ query' = Query(NextBuilder(cfg, next_diff_id))
    /\ diff_id' = NextBuilder(cfg, next_diff_id).diff_id
    /\ batch_diffid' = None
    /\ pc' = "inflight"
    /\ hist' = Track([hist EXCEPT !.lastKind = IF @ = "timeout" THEN @ ELSE "none",
                                  !.outstanding = Bump(@)])
    /\ UNCHANGED << zip, session, cfg, filtered, accept, channel_size, next_diff_id, pending,
                    chan, fpc, entry, out, handle, delivered, eos, sent >>

\* let next = DiffRequestBuilder {..}; next.stream_once(&tx): get() sends the request.
Issue ==
    /\ pc = "issue"
    /\ query' = Query(NextBuilder(cfg, next_diff_id))
    /\ diff_id' = NextBuilder(cfg, next_diff_id).diff_id
    /\ batch_diffid' = None
    /\ pc' = "inflight"
    /\ hist' = Track([hist EXCEPT !.lastKind = IF @ = "timeout" THEN @ ELSE "none",
                                  !.outstanding = Bump(@)])
    /\ UNCHANGED << zip, session, cfg, filtered, accept, channel_size, next_diff_id, pending,
                    chan, fpc, entry, out, handle, delivered, eos, sent >>

Returned(kind) ==
    [hist EXCEPT !.lastKind = IF kind = "entries" /\ hist.lastKind = "timeout"
                              THEN "retried" ELSE kind,
                 !.returnedAC = IF chan.closed THEN Bump(@) ELSE @,
                 !.timedOut = IF kind = "timeout" THEN query ELSE NoQuery,
                 !.err = "none",
                 !.outstanding = IF @ > 0 THEN @ - 1 ELSE 0]

\* get() returns Ok(diffs) with entries, and the Receiver is open: the for loop starts.
FetchEntries(diffs) ==
    /\ pc = "inflight"
    /\ Len(diffs.entries) > 0
    /\ ~chan.closed
    /\ Len(sent) + Len(Accepted(diff_id, diffs.entries)) <= hist.cap
    /\ pending' = diffs.entries
    /\ batch_diffid' = diffs.diffid
    /\ pc' = "publish"
    /\ hist' = Track([Returned("entries") EXCEPT
                          !.wellFormed = @ /\ WellFormed(diff_id, diffs),
                          !.faithful = @ /\ Faithful(diff_id, diffs)])
    /\ query' = NoQuery
    /\ UNCHANGED << zip, session, cfg, filtered, accept, channel_size, next_diff_id, diff_id,
                    chan, fpc, entry, out, handle, delivered, eos, sent >>

\* What a fetch whose batch is not published amounts to: a batch without
\* entries, or one left alone because the Receiver is closed ("skipped" when
\* it holds entries that pass the diffid test).
NothingKind(old_diff_id, diffs) ==
    IF Len(diffs.entries) = 0 THEN "empty"
    ELSE IF Accepted(old_diff_id, diffs.entries) # << >> THEN "skipped"
    ELSE "none"

FetchNothingEnds(diffs) ==
    /\ pc = "inflight"
    /\ Len(diffs.entries) = 0 \/ chan.closed
    /\ next_diff_id' = StreamOnceResult(diff_id, diffs.diffid, Len(diffs.entries) > 0)
    /\ pc' = "done"
    /\ hist' = Track([Returned(NothingKind(diff_id, diffs)) EXCEPT
                          !.wellFormed = @ /\ WellFormed(diff_id, diffs),
                          !.faithful = @ /\ Faithful(diff_id, diffs)])
    /\ batch_diffid' = diffs.diffid
    /\ query' = NoQuery
    /\ diff_id' = None
    /\ UNCHANGED << zip, session, cfg, filtered, accept, channel_size, pending, chan, fpc, entry,
                    out, handle, delivered, eos, sent >>

\* get() returns Ok(diffs) and nothing is to be sent: no entries, or tx.is_closed().
FetchNothing(diffs) ==
    /\ pc = "inflight"
    /\ Len(diffs.entries) = 0 \/ chan.closed
    /\ next_diff_id' = StreamOnceResult(diff_id, diffs.diffid, Len(diffs.entries) > 0)
    /\ pc' = "check"
    /\ hist' = Track([Returned(NothingKind(diff_id, diffs)) EXCEPT
                          !.wellFormed = @ /\ WellFormed(diff_id, diffs),
                          !.faithful = @ /\ Faithful(diff_id, diffs)])
    /\ batch_diffid' = diffs.diffid
    /\ query' = NoQuery
    /\ diff_id' = None
    /\ UNCHANGED << zip, session, cfg, filtered, accept, channel_size, pending, chan, fpc, entry,
                    out, handle, delivered, eos, sent >>

FetchErrResets(err) ==
    /\ pc = "inflight"
    /\ pc' = IF Retried(err) THEN "check" ELSE "done"
    /\ next_diff_id' = cfg.diff_id
    /\ hist' = Track([Returned(IF IsTimeout(err) THEN "timeout" ELSE "fatal")
                          EXCEPT !.err = err])
    /\ query' = NoQuery
    /\ diff_id' = None
    /\ UNCHANGED << zip, session, cfg, filtered, accept, channel_size, pending,
                    batch_diffid, chan, fpc, entry, out, handle, delivered, eos,
                    sent >>

\* get() returns Err: a reqwest timeout, or anything else (transport, decode).
FetchErr(err) ==
    /\ pc = "inflight"
    /\ pc' = IF Retried(err) THEN "check" ELSE "done"
    /\ hist' = Track([Returned(IF IsTimeout(err) THEN "timeout" ELSE "fatal")
                          EXCEPT !.err = err])
    /\ query' = NoQuery
    /\ diff_id' = None
    /\ UNCHANGED << zip, session, cfg, filtered, accept, channel_size, next_diff_id, pending,
                    batch_diffid, chan, fpc, entry, out, handle, delivered, eos,
                    sent >>

\* for entry in diffs.entries: the entry fails the diffid test and is passed over.
Skip ==
    /\ pc = "publish"
    /\ pending # << >>
    /\ ~Accepts(diff_id, Head(pending))
    /\ pending' = Tail(pending)
    /\ UNCHANGED << zip, session, cfg, filtered, accept, channel_size, pc, next_diff_id, query,
                    diff_id, batch_diffid, chan, fpc, entry, out, handle, delivered,
                    eos, sent, hist >>

SendUnchecked ==
    /\ pc = "publish"
    /\ pending # << >>
    /\ Accepts(diff_id, Head(pending))
    /\ HasPermit(chan, channel_size)
    /\ chan' = [chan EXCEPT !.buf = Append(@, Head(pending))]
    /\ sent' = Append(sent, Head(pending))
    /\ pending' = Tail(pending)
    /\ UNCHANGED << zip, session, cfg, filtered, accept, channel_size, pc, next_diff_id, query,
                    diff_id, batch_diffid, fpc, entry, out, handle, delivered, eos,
                    hist >>

\* tx.send(entry).await completes: the entry is enqueued.
Send ==
    /\ pc = "publish"
    /\ pending # << >>
    /\ Accepts(diff_id, Head(pending))
    /\ ~chan.closed
    /\ HasPermit(chan, channel_size)
    /\ chan' = [chan EXCEPT !.buf = Append(@, Head(pending))]
    /\ sent' = Append(sent, Head(pending))
    /\ pending' = Tail(pending)
    /\ UNCHANGED << zip, session, cfg, filtered, accept, channel_size, pc, next_diff_id, query,
                    diff_id, batch_diffid, fpc, entry, out, handle, delivered, eos,
                    hist >>

SendErrAdvances ==
    /\ pc = "publish"
    /\ pending # << >>
    /\ Accepts(diff_id, Head(pending))
    /\ chan.closed
    /\ pending' = << >>
    /\ diff_id' = None
    /\ next_diff_id' = batch_diffid
    /\ pc' = "done"
    /\ UNCHANGED << zip, session, cfg, filtered, accept, channel_size, query,
                    batch_diffid, chan, fpc, entry, out, handle, delivered, eos,
                    sent, hist >>

\* tx.send(entry).await? fails, the Receiver being closed: stream() breaks.
SendErr ==
    /\ pc = "publish"
    /\ pending # << >>
    /\ Accepts(diff_id, Head(pending))
    /\ chan.closed
    /\ pending' = << >>
    /\ diff_id' = None
    /\ pc' = "done"
    /\ UNCHANGED << zip, session, cfg, filtered, accept, channel_size, next_diff_id, query,
                    batch_diffid, chan, fpc, entry, out, handle, delivered, eos,
                    sent, hist >>

BatchDoneEarly ==
    /\ pc = "publish"
    /\ pending = << >> \/ ~HasPermit(chan, channel_size)
    /\ next_diff_id' = StreamOnceResult(diff_id, batch_diffid, TRUE)
    /\ diff_id' = None
    /\ pending' = << >>
    /\ pc' = "check"
    /\ hist' = Track([hist EXCEPT !.lastKind = "none"])
    /\ UNCHANGED << zip, session, cfg, filtered, accept, channel_size, query,
                    batch_diffid, chan, fpc, entry, out, handle, delivered, eos,
                    sent >>

\* The for loop is over (it runs only for a batch with entries): stream_once
\* returns, and stream() stores its Ok value in next_diff_id.
BatchDone ==
    /\ pc = "publish"
    /\ pending = << >>
    /\ next_diff_id' = StreamOnceResult(diff_id, batch_diffid, TRUE)
    /\ diff_id' = None
    /\ pc' = "check"
    /\ hist' = Track([hist EXCEPT !.lastKind = "none"])
    /\ UNCHANGED << zip, session, cfg, filtered, accept, channel_size, query, pending,
                    batch_diffid, chan, fpc, entry, out, handle, delivered, eos,
                    sent >>

\* ------------------------------------------------------ the filter task
\* The filter's Sender is dropped when the filter task has ended.
OutSenderDropped == fpc = "done"

FilterSendUnbounded ==
    /\ fpc = "send"
    /\ ~out.closed
    /\ out' = [out EXCEPT !.buf = Append(@, entry)]
    /\ entry' = None
    /\ fpc' = "recv"
    /\ UNCHANGED << zip, session, cfg, filtered, accept, channel_size, pc, next_diff_id, query,
                    diff_id, pending, batch_diffid, chan, handle,
                    delivered, eos, sent, hist >>

FilterRecvAll ==
    /\ fpc = "recv"
    /\ chan.buf # << >>
    /\ chan' = [chan EXCEPT !.buf = Tail(@)]
    /\ fpc' = "send"
    /\ entry' = Head(chan.buf)
    /\ UNCHANGED << zip, session, cfg, filtered, accept, channel_size, pc, next_diff_id, query,
                    diff_id, pending, batch_diffid, out, handle, delivered, eos,
                    sent, hist >>

\* source.recv().await yields an entry; filter(&entry) decides whether it is sent.
FilterRecv ==
    /\ fpc = "recv"
    /\ chan.buf # << >>
    /\ chan' = [chan EXCEPT !.buf = Tail(@)]
    /\ IF filter(Head(chan.buf))
       THEN fpc' = "send" /\ entry' = Head(chan.buf)
       ELSE fpc' = "recv" /\ entry' = None
    /\ UNCHANGED << zip, session, cfg, filtered, accept, channel_size, pc, next_diff_id, query,
                    diff_id, pending, batch_diffid, out, handle,
                    delivered, eos, sent, hist >>

FilterSourceEndEarly ==
    /\ fpc = "recv"
    /\ chan.buf = << >>
    /\ fpc' = "done"
    /\ chan' = [chan EXCEPT !.closed = TRUE]
    /\ UNCHANGED << zip, session, cfg, filtered, accept, channel_size, pc, next_diff_id, query,
                    diff_id, pending, batch_diffid, entry, out, handle, delivered,
                    eos, sent, hist >>

\* source.recv().await yields None: the task ends, dropping source and tx.
FilterSourceEnd ==
    /\ fpc = "recv"
    /\ chan.buf = << >>
    /\ SenderDropped
    /\ fpc' = "done"
    /\ chan' = [chan EXCEPT !.closed = TRUE]
    /\ UNCHANGED << zip, session, cfg, filtered, accept, channel_size, pc, next_diff_id, query,
                    diff_id, pending, batch_diffid, entry, out, handle,
                    delivered, eos, sent, hist >>

\* tx.send(entry).await is Ok.
FilterSend ==
    /\ fpc = "send"
    /\ ~out.closed
    /\ HasPermit(out, FilterChannelSize)
    /\ out' = [out EXCEPT !.buf = Append(@, entry)]
    /\ entry' = None
    /\ fpc' = "recv"
    /\ UNCHANGED << zip, session, cfg, filtered, accept, channel_size, pc, next_diff_id, query,
                    diff_id, pending, batch_diffid, chan, handle,
                    delivered, eos, sent, hist >>

\* tx.send(entry).await is Err: break; the task ends, dropping source (with what
\* it still buffers) and tx.
FilterSendErr ==
    /\ fpc = "send"
    /\ out.closed
    /\ entry' = None
    /\ fpc' = "done"
    /\ chan' = [buf |-> << >>, closed |-> TRUE]
    /\ UNCHANGED << zip, session, cfg, filtered, accept, channel_size, pc, next_diff_id, query,
                    diff_id, pending, batch_diffid, out, handle, delivered, eos,
                    sent, hist >>

\* --------------------------------------------------------- the consumer
\* The channel behind the consumer's Receiver, and whether its Sender is gone.
Handle == IF filtered THEN out ELSE chan

HandleSenderDropped == IF filtered THEN OutSenderDropped ELSE SenderDropped

SetHandle(c) ==
    IF filtered THEN out' = c /\ UNCHANGED chan
                ELSE chan' = c /\ UNCHANGED out

\* recv().await yields Some(entry).
Recv ==
    /\ handle \in {"open", "closed"}
    /\ Handle.buf # << >>
    /\ delivered' = Append(delivered, Head(Handle.buf))
    /\ SetHandle([Handle EXCEPT !.buf = Tail(@)])
    /\ UNCHANGED << zip, session, cfg, filtered, accept, channel_size, pc, next_diff_id, query,
                    diff_id, pending, batch_diffid, fpc, entry, handle,
                    eos, sent, hist >>

\* recv().await yields None: nothing buffered, and the channel closed or senderless.
RecvNone ==
    /\ handle \in {"open", "closed"}
    /\ Handle.buf = << >>
    /\ Handle.closed \/ HandleSenderDropped
    /\ ~eos
    /\ eos' = TRUE
    /\ UNCHANGED << zip, session, cfg, filtered, accept, channel_size, pc, next_diff_id, query,
                    diff_id, pending, batch_diffid, chan, fpc, entry, out,
                    handle, delivered, sent, hist >>

\* Receiver::close(): no further send succeeds, buffered entries stay receivable.
Close ==
    /\ handle = "open"
    /\ handle' = "closed"
    /\ SetHandle([Handle EXCEPT !.closed = TRUE])
    /\ UNCHANGED << zip, session, cfg, filtered, accept, channel_size, pc, next_diff_id, query,
                    diff_id, pending, batch_diffid, fpc, entry, delivered, eos,
                    sent, hist >>

\* The Receiver is dropped: the channel is closed and its buffer discarded.
Drop ==
    /\ handle \in {"open", "closed"}
    /\ handle' = "dropped"
    /\ SetHandle([buf |-> << >>, closed |-> TRUE])
    /\ UNCHANGED << zip, session, cfg, filtered, accept, channel_size, pc, next_diff_id, query,
                    diff_id, pending, batch_diffid, fpc, entry, delivered, eos,
                    sent, hist >>

\* ------------------------------------------------------------------- Next
Driver ==
    \/ LoopCheck
    \/ Issue
    \/ \E diffs \in Diffs : FetchEntries(diffs)
    \/ \E diffs \in Diffs : FetchNothing(diffs)
    \/ \E err \in Errors : FetchErr(err)
    \/ Skip
    \/ Send
    \/ SendErr
    \/ BatchDone

Filter ==
    \/ FilterRecv
    \/ FilterSourceEnd
    \/ FilterSend
    \/ FilterSendErr

Consumer ==
    \/ Recv
    \/ RecvNone
    \/ Close
    \/ Drop

Next == Driver \/ Consumer

Spec == Init /\ [][Next]_vars

FilterNext == Driver \/ Filter \/ Consumer

FilterSpec == FilterInit /\ [][FilterNext]_vars

\* The tokio runtime keeps polling a spawned task that can make progress, every
\* request returns or times out, and the consumer keeps calling recv().
\* Nothing obliges the consumer to close or drop its Receiver.
LiveSpec ==
    Spec /\ WF_vars(Driver) /\ WF_vars(Recv \/ RecvNone)

FilterLiveSpec ==
    FilterSpec /\ WF_vars(Driver) /\ WF_vars(Filter) /\ WF_vars(Recv \/ RecvNone)

\* The pipeline under load: a stream with limit(1) and a start cursor, piped
\* through a filter that accepts every entry, against a service that answers
\* every request at once with the one event after the request's cursor; the
\* consumer keeps its Receiver open and pulls when it likes.
PipeBuilder == Builder(0, 1, Unset)

NextEvent(c) == [diffid |-> c + 1, entries |-> << c + 1 >>]

PipeInit ==
    /\ Start(PipeBuilder, TRUE, 1..PipeMaxSent, PipeMaxSent)
    /\ zip = NoZip
    /\ session = NoSession

PipeNext ==
    \/ LoopCheck
    \/ Issue
    \/ FetchEntries(NextEvent(diff_id))
    \/ Send
    \/ BatchDone
    \/ FilterRecv
    \/ FilterSend
    \/ Recv

PipeSpec == PipeInit /\ [][PipeNext]_vars

\* ------------------------------------------- the save-zip progress task
\* A deserialized SaveZipProgressResponse, by the two counts the task reads.
Progress == [files : 0..MaxFiles, totalfiles : 0..MaxFiles]

\* progress.totalfiles - progress.files leaves the range of u64.
Underflows(p) == p.files > p.totalfiles

\* remaining == 0, for the difference as computed or as wrapped round.
RemainingIsZero(p) == p.totalfiles = p.files

\* execute_with_progress_notification has returned (result, rx): the task is
\* spawned and about to call fetch_progress_and_send_event.
ZipStart(overflow_checks) ==
    [ pc        |-> "poll",     \* position of the progress task
      overflow_checks |-> overflow_checks, \* the build panics on overflow
      hold      |-> << >>,      \* the progress the task is about to send
      chan      |-> EmptyChannel,
      handle    |-> "open",     \* the consumer's Receiver
      fetched   |-> << >>,      \* history: every progress fetched
      sent      |-> << >>,      \* history: every progress enqueued
      delivered |-> << >>,      \* history: what the consumer pulled
      eos       |-> FALSE,      \* history: the consumer's recv() returned None
      polls     |-> 0,          \* history: requests sent
      pollsAC   |-> 0 ]         \* history: requests sent after the close (max 2)

ZipInit ==
    /\ Start(PipeBuilder, FALSE, {}, 0)
    /\ session = NoSession
    /\ \E overflow_checks \in BOOLEAN : zip = ZipStart(overflow_checks)

\* fetch_progress: the request is sent.
ZipIssue ==
    /\ zip.pc = "poll"
    /\ zip.polls < MaxPolls
    /\ zip' = [zip EXCEPT !.pc = "inflight",
                          !.polls = @ + 1,
                          !.pollsAC = IF zip.chan.closed THEN Bump(@) ELSE @]
    /\ UNCHANGED << streamVars, session >>

\* fetch_progress returns Ok(progress) and remaining is computed: on an
\* underflow the task panics if the build checks overflow, dropping tx.
ZipFetch(p) ==
    /\ zip.pc = "inflight"
    /\ zip' = [zip EXCEPT !.fetched = Append(@, p),
                          !.pc = IF Underflows(p) /\ zip.overflow_checks
                                 THEN "panicked" ELSE "send",
                          !.hold = IF Underflows(p) /\ zip.overflow_checks
                                   THEN << >> ELSE << p >>]
    /\ UNCHANGED << streamVars, session >>

\* fetch_progress returns Err: warn!, then sleep.
ZipFetchErr ==
    /\ zip.pc = "inflight"
    /\ zip' = [zip EXCEPT !.pc = "sleep"]
    /\ UNCHANGED << streamVars, session >>

ZipSendBreaksFirst ==
    /\ zip.pc = "send"
    /\ ~zip.chan.closed
    /\ HasPermit(zip.chan, ProgressChannelSize)
    /\ zip' = IF RemainingIsZero(Head(zip.hold))
              THEN [zip EXCEPT !.hold = << >>, !.pc = "done"]
              ELSE [zip EXCEPT !.chan.buf = Append(@, Head(zip.hold)),
                               !.sent = Append(@, Head(zip.hold)),
                               !.hold = << >>,
                               !.pc = "sleep"]
    /\ UNCHANGED << streamVars, session >>

\* tx.send(progress).await completes, Ok(remaining) is returned: break if
\* remaining == 0, sleep otherwise.
ZipSend ==
    /\ zip.pc = "send"
    /\ ~zip.chan.closed
    /\ HasPermit(zip.chan, ProgressChannelSize)
    /\ zip' = [zip EXCEPT !.chan.buf = Append(@, Head(zip.hold)),
                          !.sent = Append(@, Head(zip.hold)),
                          !.hold = << >>,
                          !.pc = IF RemainingIsZero(Head(zip.hold))
                                 THEN "done" ELSE "sleep"]
    /\ UNCHANGED << streamVars, session >>

\* tx.send(progress).await? fails, the Receiver being closed: the Err is
\* logged with warn!, then sleep.
ZipSendErr ==
    /\ zip.pc = "send"
    /\ zip.chan.closed
    /\ zip' = [zip EXCEPT !.hold = << >>, !.pc = "sleep"]
    /\ UNCHANGED << streamVars, session >>

\* sleep(polling_interval).await is over: round the loop.
ZipSleep ==
    /\ zip.pc = "sleep"
    /\ zip' = [zip EXCEPT !.pc = "poll"]
    /\ UNCHANGED << streamVars, session >>

\* The progress task's Sender is dropped when the task has ended.
ZipSenderDropped == zip.pc \in {"done", "panicked"}

\* rx.recv().await yields Some(progress).
ZipRecv ==
    /\ zip.pc # "off"
    /\ zip.handle \in {"open", "closed"}
    /\ zip.chan.buf # << >>
    /\ zip' = [zip EXCEPT !.delivered = Append(@, Head(zip.chan.buf)),
                          !.chan.buf = Tail(@)]
    /\ UNCHANGED << streamVars, session >>

\* rx.recv().await yields None.
ZipRecvNone ==
    /\ zip.pc # "off"
    /\ zip.handle \in {"open", "closed"}
    /\ zip.chan.buf = << >>
    /\ zip.chan.closed \/ ZipSenderDropped
    /\ ~zip.eos
    /\ zip' = [zip EXCEPT !.eos = TRUE]
    /\ UNCHANGED << streamVars, session >>

\* rx.close().
ZipClose ==
    /\ zip.pc # "off"
    /\ zip.handle = "open"
    /\ zip' = [zip EXCEPT !.handle = "closed", !.chan.closed = TRUE]
    /\ UNCHANGED << streamVars, session >>

\* rx is dropped.
ZipDrop ==
    /\ zip.pc # "off"
    /\ zip.handle \in {"open", "closed"}
    /\ zip' = [zip EXCEPT !.handle = "dropped",
                          !.chan = [buf |-> << >>, closed |-> TRUE]]
    /\ UNCHANGED << streamVars, session >>

ZipNext ==
    \/ ZipIssue
    \/ \E p \in Progress : ZipFetch(p)
    \/ ZipFetchErr
    \/ ZipSend
    \/ ZipSendErr
    \/ ZipSleep
    \/ ZipRecv
    \/ ZipRecvNone
    \/ ZipClose
    \/ ZipDrop

ZipSpec == ZipInit /\ [][ZipNext]_vars

\* --------------------------------------------------- the login session
\* The tokio runtime the program runs on.
Flavors == {"multi_thread", "current_thread"}

\* The streams of the logged-in client.
SessionBuilders == { Builder(0, 1, Unset), Builder(None, None, AllSet) }

\* with_username_and_password: session_token is Arc::new(Some(session)); the
\* program holds one PCloudClient and the builder of the stream a clone.
SessionStart(flavor) ==
    [ state   |-> "live",   \* "dropping": in Drop, "loggedout": Drop is over
      flavor  |-> flavor,
      clones  |-> 1,        \* PCloudClient values the program holds
      logouts |-> 0 ]       \* history: logout requests sent (max 2)

SessionInit ==
    /\ \E self \in SessionBuilders : Start(self, FALSE, Cursors, MaxSent)
    /\ zip = NoZip
    /\ \E flavor \in Flavors : session = SessionStart(flavor)

\* The driver task owns self, and with it self.client, until it ends.
DriverHoldsClient == pc \notin {"done", "panicked"}

\* client.clone(): one more Arc on the session.
CloneClient ==
    /\ session.state = "live"
    /\ session.clones \in 1..(MaxClones - 1)
    /\ session' = [session EXCEPT !.clones = @ + 1]
    /\ UNCHANGED << streamVars, zip >>

\* A PCloudClient of the program is dropped.
DropClient ==
    /\ session.state = "live"
    /\ session.clones > 0
    /\ session' = [session EXCEPT !.clones = @ - 1]
    /\ UNCHANGED << streamVars, zip >>

\* The last Arc is gone: Drop for PCloudClientSession spawns the logout task
\* and blocks its thread on the JoinHandle.
SessionDrop ==
    /\ session.state = "live"
    /\ session.clones = 0
    /\ ~DriverHoldsClient
    /\ session' = [session EXCEPT !.state = "dropping"]
    /\ UNCHANGED << streamVars, zip >>

\* A thread of the runtime other than the one blocked in Drop polls the
\* logout task: the request is sent, and block_on returns.
Logout ==
    /\ session.state = "dropping"
    /\ session.flavor = "multi_thread"
    /\ session' = [session EXCEPT !.state = "loggedout", !.logouts = Bump(@)]
    /\ UNCHANGED << streamVars, zip >>

Client ==
    \/ CloneClient
    \/ DropClient
    \/ SessionDrop
    \/ Logout

SessionNext == Driver \/ Consumer \/ Client

SessionSpec == SessionInit /\ [][SessionNext]_vars

\* As LiveSpec; and a drop of the last Arc runs Drop, and the runtime polls the
\* logout task when it has a thread to do so.
SessionLiveSpec ==
    SessionSpec /\ WF_vars(Driver) /\ WF_vars(Recv \/ RecvNone)
                /\ WF_vars(SessionDrop) /\ WF_vars(Logout)

\* ---------------------------------------------------------------- claims
Range(s) == {s[i] : i \in 1..Len(s)}

\* C1 as stated: whatever batches the fetcher returns (overlapping, repeated
\* or out of order), the events enqueued have strictly increasing diffids.
C1_Monotone == StrictlyIncreasing(sent)

\* C1 as amended: as long as every batch returned so far has its entries in
\* strictly increasing diffid order and a high-water diffid not below any of
\* them nor below the cursor of its request (the batches may overlap or
\* repeat entries of earlier ones), the events enqueued have strictly
\* increasing diffids.
C1_MonotoneWellFormed == hist.wellFormed => StrictlyIncreasing(sent)

\* Two events are enqueued, the batches were well formed, and the for loop is
\* at an entry of a later batch that repeats one already enqueued.
C1_Witness ==
    /\ hist.wellFormed
    /\ Len(sent) >= 2
    /\ pc = "publish"
    /\ pending # << >>
    /\ Head(pending) \in Range(sent)

\* C3: after a fetch that returned a batch with no entries, the driver's
\* cursor is that batch's high-water diffid, and the request issued next
\* carries it.
C3_EmptyBatchAdvances ==
    /\ [](hist.lastKind = "empty" /\ pc \in {"check", "issue"}
            => next_diff_id = batch_diffid)
    /\ [][hist.lastKind = "empty" /\ pc = "issue" /\ pc' = "inflight"
            => query'.diffid = batch_diffid]_vars

\* C4: the stream's channel never buffers more than its capacity, and while
\* it is full nothing is enqueued: the buffer changes only by shrinking.
C4_Bounded ==
    /\ [](Len(chan.buf) <= channel_size)
    /\ [][Len(chan.buf) = channel_size
            => sent' = sent /\ Len(chan'.buf) <= Len(chan.buf)]_vars

\* The channel is full, the consumer has its Receiver open and is not pulling,
\* and the driver is in tx.send() with an entry that passed the diffid test.
C4_Witness ==
    /\ Len(chan.buf) = channel_size
    /\ handle = "open"
    /\ pc = "publish"
    /\ pending # << >>
    /\ Accepts(diff_id, Head(pending))

\* The events the service holds after the cursor c, up to the n-th.
Run(c, n) == [i \in 1..n |-> c + i]

\* How many events have been fetched and passed the diffid test so far.
Fetched ==
    Len(sent) + (IF pc = "publish" THEN Len(Accepted(diff_id, pending)) ELSE 0)

\* C2: for a stream started with a cursor, against a service whose every
\* batch holds exactly the events after the request's cursor up to its
\* high-water diffid: the events enqueued are the service's events after the
\* start cursor, each once, in order, none skipped; what the consumer has
\* pulled and what the channel buffers are together exactly those events; and
\* every event fetched is eventually pulled, unless the consumer closes or
\* drops its Receiver.
C2_ExactlyOnce ==
    /\ [](hist.faithful /\ cfg.diff_id # None
            => /\ sent = Run(cfg.diff_id, Len(sent))
               /\ handle # "dropped" => delivered \o chan.buf = sent)
    /\ \A n \in 1..MaxSent :
            (Fetched >= n) ~> (Len(delivered) >= n \/ handle # "open")

\* The consumer has pulled two events that a faithful service returned in two
\* batches, the second fetched with the cursor the first one set.
C2_Witness ==
    /\ hist.faithful
    /\ cfg.diff_id # None
    /\ handle = "open"
    /\ Len(delivered) = 2
    /\ pc = "check"
    /\ next_diff_id = cfg.diff_id + 2
    /\ channel_size = 1

\* C5: a fetch that times out leaves the driver running with its cursor and
\* the channel untouched, so the consumer sees neither an error nor
\* end-of-stream; and when the retry returns a batch of one event (one the
\* diffid test accepts), the consumer eventually pulls exactly that event as
\* its next one, unless it closes or drops its Receiver.
C5_TimeoutRetried ==
    /\ [][pc = "inflight" /\ pc' # pc /\ hist'.lastKind = "timeout"
            => /\ pc' = "check"
               /\ next_diff_id' = next_diff_id
               /\ chan' = chan /\ sent' = sent /\ eos' = eos]_vars
    /\ [](hist.lastKind = "timeout" /\ pc = "done" => chan.closed)
    /\ \A n \in 1..MaxSent, e \in Cursors :
            (/\ hist.lastKind = "retried"
             /\ pc = "publish"
             /\ pending = << e >>
             /\ Accepts(diff_id, e)
             /\ Len(sent) = n - 1)
            ~> (\/ Len(delivered) >= n /\ delivered[n] = e
                \/ handle # "open")

\* After a timeout and a retry that returned one event, the consumer has
\* pulled that event and has seen no end-of-stream.
C5_Witness ==
    /\ hist.lastKind = "retried"
    /\ pc = "publish"
    /\ pending = << >>
    /\ sent # << >>
    /\ delivered = sent
    /\ handle = "open"
    /\ ~eos

\* C6: a fatal (non-timeout) fetch error ends the driver, every batch before it
\* having been published in full, and no request is issued afterwards; the
\* consumer then pulls what is buffered and gets end-of-stream only after it
\* has pulled every event enqueued.
C6_FatalEnds ==
    /\ [](hist.lastKind = "fatal"
            => pc = "done" /\ pending = << >> /\ query = NoQuery)
    /\ [][hist.lastKind = "fatal" => pc' = "done" /\ sent' = sent]_vars
    /\ [](eos /\ handle = "open" => hist.lastKind = "fatal" /\ delivered = sent)
    /\ (hist.lastKind = "fatal") ~> (eos \/ handle = "dropped")

\* The second fetch failed fatally after a first batch; the consumer has pulled
\* the first batch's events and then got end-of-stream.
C6_Witness ==
    /\ hist.lastKind = "fatal"
    /\ eos
    /\ handle = "open"
    /\ Len(delivered) = 2
    /\ delivered = sent

\* C7: after the consumer closed or dropped the stream's Receiver, at most one
\* fetch returns, after which the driver is at its loop test or has ended and
\* issues no request; and the driver eventually ends.
C7_ClosedWithinOneFetch ==
    /\ [](hist.returnedAC <= 1)
    /\ [](hist.returnedAC = 1 => pc \in {"check", "done"})
    /\ [][chan.closed /\ pc = "check" => pc' \in {"check", "done"}]_vars
    /\ chan.closed ~> (pc = "done")

\* A fetch that was in flight when the consumer closed has returned, and the
\* driver has ended.
C7_Witness ==
    /\ chan.closed
    /\ hist.returnedAC = 1
    /\ pc = "done"

\* C8: once the Receiver of the stream's channel is closed, no entry is
\* enqueued: the buffer never grows, and a send that fails ends the driver
\* with the rest of its batch unpublished.
C8_NothingAfterClose ==
    /\ [][chan.closed => sent' = sent /\ Len(chan'.buf) <= Len(chan.buf)]_vars
    /\ [][chan.closed /\ pc = "publish" /\ pending # << >>
                /\ Accepts(diff_id, Head(pending)) /\ pc' # pc
            => pc' = "done" /\ pending' = << >>]_vars

\* The Receiver was closed in the middle of a batch: one entry of it is
\* enqueued, and the driver is about to send the next.
C8_Witness ==
    /\ chan.closed
    /\ pc = "publish"
    /\ Len(sent) >= 1
    /\ pending # << >>
    /\ Accepts(diff_id, Head(pending))

\* The entry the filter task holds between recv() and send(), as a sequence.
InHand == IF fpc = "send" THEN << entry >> ELSE << >>

\* C9: while the consumer keeps its Receiver open, the entries it has pulled,
\* those the output buffers, the one being forwarded and the accepted ones
\* still in the source are together exactly the accepted entries of the
\* source, in source order; so once the source has ended and the consumer
\* has got end-of-stream, it has pulled exactly the accepted subsequence.
C9_FilterExact ==
    /\ handle = "open"
        => SelectSeq(sent, filter)
             = delivered \o out.buf \o InHand \o SelectSeq(chan.buf, filter)
    /\ eos /\ handle = "open" => delivered = SelectSeq(sent, filter)

\* The source has ended after two entries, one accepted and one not; the
\* consumer has pulled the accepted one and got end-of-stream.
C9_Witness ==
    /\ eos
    /\ handle = "open"
    /\ fpc = "done"
    /\ Len(sent) = 2
    /\ Len(delivered) = 1
    /\ delivered[1] \in accept
    /\ \E i \in 1..2 : sent[i] \notin accept

\* C10: the filter task leaves its recv() loop only when the source's Sender
\* is gone and its buffer drained; once that is so the task ends; and the
\* consumer gets end-of-stream only then, after it has pulled every entry
\* the filter forwarded.
C10_FilterEnds ==
    /\ [][fpc = "recv" /\ fpc' = "done" => pc = "done" /\ chan.buf = << >>]_vars
    /\ [](eos /\ handle = "open"
            => /\ pc = "done" /\ fpc = "done"
               /\ chan.buf = << >> /\ out.buf = << >>
               /\ Len(delivered) = Len(SelectSeq(sent, filter)))
    /\ (pc = "done") ~> (fpc = "done")
    /\ (fpc = "done") ~> (eos \/ handle = "dropped")

\* The driver ended on a fatal error, the filter drained the source and ended,
\* and the consumer pulled both forwarded entries before end-of-stream.
C10_Witness ==
    /\ eos
    /\ handle = "open"
    /\ pc = "done"
    /\ fpc = "done"
    /\ Len(delivered) = 2

\* C11: once the consumer has closed or dropped the Receiver of the filter's
\* output, the filter task takes no element from its source and carries on:
\* it never reads an element and returns to recv() with the output closed.
C11_FilterStopsOnClose ==
    [][out.closed /\ fpc = "recv" /\ Len(chan'.buf) < Len(chan.buf)
            => fpc' # "recv"]_vars

\* C12: neither channel ever buffers more than its capacity, so the pipeline
\* holds at most both capacities and the entry the filter is forwarding;
\* while the filter's output is full and the filter waits in tx.send() with
\* an accepted entry, it takes nothing from its source; and when the source
\* channel is full as well, the driver enqueues nothing.
C12_FilterBackpressure ==
    /\ [](/\ Len(out.buf) <= FilterChannelSize
          /\ Len(chan.buf) <= channel_size
          /\ Len(chan.buf) + Len(InHand) + Len(out.buf)
                <= channel_size + 1 + FilterChannelSize)
    /\ [][Len(out.buf) = FilterChannelSize /\ fpc = "send"
            => /\ fpc' = "send" /\ entry' = entry
               /\ Len(chan'.buf) >= Len(chan.buf)
               /\ Len(out'.buf) <= Len(out.buf)]_vars
    /\ [][Len(out.buf) = FilterChannelSize /\ fpc = "send"
                /\ Len(chan.buf) = channel_size
            => sent' = sent /\ chan' = chan]_vars

\* The output is full, the filter waits to forward an accepted entry, the
\* source channel is full, and the driver is suspended in tx.send().
C12_Witness ==
    /\ Len(out.buf) = FilterChannelSize
    /\ fpc = "send"
    /\ filter(entry)
    /\ Len(chan.buf) = channel_size
    /\ pc = "publish"
    /\ pending # << >>
    /\ handle = "open"

\* C13: for every page limit, stream() returns a usable Receiver, and the
\* capacity of its channel is the limit when one is set and 128 otherwise.
C13_CapacityIsLimit ==
    /\ handle # "none"
    /\ pc # "panicked"
    /\ channel_size >= 1
    /\ cfg.limit # None => channel_size = cfg.limit
    /\ cfg.limit = None => channel_size = DefaultChannelSize

\* C14: the driver task ends only after a fetch failed with a non-timeout
\* error or with the Receiver of its channel closed or dropped; otherwise,
\* with or without a block timeout, it issues requests again and again.
C14_EndsOnlyOnFatalOrClose ==
    /\ [](pc = "done" => hist.lastKind = "fatal" \/ chan.closed)
    /\ [][pc' = "done" /\ pc # "done"
            => hist'.lastKind = "fatal" \/ chan.closed]_vars
    /\ \/ []<><<Issue>>_vars
       \/ <>(hist.lastKind = "fatal" \/ chan.closed \/ pc = "panicked")

\* With a block timeout configured, two events are enqueued, a fetch has
\* timed out, and the driver has a further request in flight.
C14_Witness ==
    /\ cfg.timeout # None
    /\ Len(sent) >= 2
    /\ hist.lastKind = "timeout"
    /\ pc = "inflight"
    /\ ~chan.closed

\* C15 as stated: whatever batches the fetcher returns, a cursor the driver
\* holds is never unset and never replaced by a lower one.
C15_CursorNonDecreasing ==
    [][next_diff_id # None
            => next_diff_id' # None /\ next_diff_id' >= next_diff_id]_vars

\* C15 as amended: a cursor the driver holds is never unset, and it is
\* replaced by a lower one only when the batch just fetched carries a
\* high-water diffid below the cursor of its request.
C15_CursorNonDecreasingFromBatch ==
    [][next_diff_id # None /\ (batch_diffid' = None \/ batch_diffid' >= next_diff_id)
            => next_diff_id' # None /\ next_diff_id' >= next_diff_id]_vars

\* The cursor has moved up from the start cursor to the high-water diffid of
\* the batch just published.
C15_Witness ==
    /\ cfg.diff_id # None
    /\ pc = "check"
    /\ sent # << >>
    /\ batch_diffid # None
    /\ next_diff_id = batch_diffid
    /\ next_diff_id > cfg.diff_id

\* C16: a fetch that times out changes neither the driver's cursor nor the
\* channel, the cursor is still that of the timed-out request when the driver
\* is back at its loop, and the request issued next carries the same diffid,
\* after, last, limit, block and timeout as the request that timed out.
C16_RetryIdentical ==
    /\ [][pc = "inflight" /\ pc' # pc /\ hist'.lastKind = "timeout"
            => next_diff_id' = next_diff_id /\ sent' = sent /\ chan' = chan]_vars
    /\ [](hist.lastKind = "timeout" /\ pc \in {"check", "issue"}
            => next_diff_id = hist.timedOut.diffid)
    /\ [][hist.lastKind = "timeout" /\ pc = "issue" /\ pc' = "inflight"
            => query' = hist.timedOut]_vars

\* The retry of a timed-out request is in flight; it carries a cursor that had
\* moved on from the start cursor, and events were enqueued before.
C16_Witness ==
    /\ hist.lastKind = "timeout"
    /\ pc = "inflight"
    /\ query = hist.timedOut
    /\ query.diffid # None
    /\ query.diffid # cfg.diff_id
    /\ cfg.last # None
    /\ sent # << >>

\* C17: no request carries block=1 without a diffid: neither the request get()
\* builds for any builder, nor any request the stream has in flight, its
\* first one without a start cursor included.
C17_BlockNeedsCursor ==
    /\ \A self \in Builders : Query(self).block => Query(self).diffid # None
    /\ query.block => query.diffid # None

\* The stream, which asks every request to block, has a request in flight
\* that carries no diffid and so no block=1.
C17_Witness ==
    /\ pc = "inflight"
    /\ cfg.diff_id = None
    /\ query.diffid = None
    /\ ~query.block
    /\ NextBuilder(cfg, next_diff_id).block

\* C18: every entry enqueued while a batch fetched with the cursor c is being
\* published has a diffid strictly greater than c; an entry of the batch
\* with a diffid of c or less is passed over and the channel left as it is.
C18_DedupAtSeam ==
    /\ [][sent' # sent
            => /\ pc = "publish" /\ Len(sent') = Len(sent) + 1
               /\ diff_id # None => sent'[Len(sent')] > diff_id]_vars
    /\ [][pc = "publish" /\ pending # << >> /\ diff_id # None
                /\ Head(pending) <= diff_id /\ pending' # pending
            => sent' = sent /\ chan' = chan /\ pc' = "publish"
               /\ pending' = Tail(pending)]_vars

\* A batch fetched with the cursor the previous batch set repeats the entry
\* enqueued last, at or below that cursor, before a new one.
C18_Witness ==
    /\ pc = "publish"
    /\ diff_id # None
    /\ sent # << >>
    /\ Len(pending) = 2
    /\ pending[1] = sent[Len(sent)]
    /\ pending[1] <= diff_id
    /\ pending[2] > diff_id

\* C19: whatever batch a fetch returned, with entries or without, the request
\* the stream issues next carries a diffid and no after.
C19_CursorAfterFirst ==
    [][pc = "issue" /\ pc' = "inflight" /\ batch_diffid # None
            => query'.diffid # None /\ query'.after = None]_vars

\* C20: no request of the stream carries both a diffid and an after: when the
\* builder has both, every request, the first included, carries the diffid
\* and omits the after.
C20_CursorOrAfter ==
    /\ ~(query.diffid # None /\ query.after # None)
    /\ pc = "inflight" /\ cfg.diff_id # None
        => query.diffid # None /\ query.after = None

\* The builder has both a start cursor and an after; the stream's first
\* request is in flight, with the diffid and without the after.
C20_Witness ==
    /\ pc = "inflight"
    /\ cfg.diff_id # None
    /\ cfg.after # None
    /\ next_diff_id = cfg.diff_id
    /\ sent = << >>
    /\ query.diffid = cfg.diff_id
    /\ query.after = None

\* C21: only the stream's first request carries last: the request issued
\* after a fetch has returned a batch does not.
C21_LastOnFirstOnly ==
    [][pc = "issue" /\ pc' = "inflight" /\ batch_diffid # None
            => query'.last = None]_vars

\* C22: a fetch that fails is followed by another request exactly when it
\* failed with a timeout; after any other failure (transport error, body
\* that does not decode, error envelope) the driver has ended, and it
\* never runs again.
C22_RetryIffTimeout ==
    /\ [][pc = "inflight" /\ pc' # pc /\ hist'.err # "none"
            => /\ hist'.err = "timeout" => pc' = "check"
               /\ hist'.err # "timeout" => pc' = "done"]_vars
    /\ [](hist.err \notin {"none", "timeout"} => pc = "done" /\ query = NoQuery)
    /\ [][pc = "done" => pc' = "done" /\ query' = NoQuery]_vars
    /\ [][hist.err = "timeout" /\ pc = "check" /\ ~chan.closed /\ pc' # pc
            => pc' = "issue"]_vars

\* The body of a response did not decode after entries were enqueued: the
\* driver has ended, its channel still open.
C22_Witness ==
    /\ hist.err = "decode"
    /\ pc = "done"
    /\ ~chan.closed
    /\ sent # << >>

\* C23 as stated: the driver's cursor changes only at the end of the for loop
\* over a batch, every entry visited and every accepted one enqueued (or on
\* a batch none of whose entries is to be enqueued); a send that fails in
\* the middle of a batch leaves the cursor as it was.
C23_CursorAfterPublish ==
    /\ [][next_diff_id' # next_diff_id
            => \/ pc = "publish" /\ pending = << >>
               \/ pc = "inflight" /\ hist'.lastKind # "skipped"]_vars
    /\ [][pc = "publish" /\ pending # << >> /\ pc' = "done"
            => next_diff_id' = next_diff_id]_vars

\* C23 as amended: the same, except for a batch that arrives when the
\* Receiver is already closed: none of its entries is enqueued, the cursor
\* is set to its high-water diffid, and the driver ends at its loop test
\* without issuing another request.
C23_CursorAfterPublishOrClosed ==
    /\ [][next_diff_id' # next_diff_id
            => \/ pc = "publish" /\ pending = << >>
               \/ pc = "inflight" /\ hist'.lastKind # "skipped"
               \/ pc = "inflight" /\ chan.closed /\ pc' = "check"]_vars
    /\ [][pc = "publish" /\ pending # << >> /\ pc' = "done"
            => next_diff_id' = next_diff_id]_vars
    /\ [](hist.lastKind = "skipped"
            => chan.closed /\ pc \in {"check", "done"} /\ query = NoQuery)
    /\ [][hist.lastKind = "skipped" => pc' \in {"check", "done"}]_vars

\* A send failed in the middle of a batch after an entry of it was enqueued:
\* the driver has ended and its cursor is not the batch's high-water diffid.
C23_Witness ==
    /\ pc = "done"
    /\ hist.lastKind = "entries"
    /\ chan.closed
    /\ Len(sent) >= 1
    /\ batch_diffid # None
    /\ next_diff_id # batch_diffid

\* The driver is in tx.send() with an entry that passed the diffid test, the
\* channel is full and its Receiver open.
Suspended ==
    /\ pc = "publish"
    /\ pending # << >>
    /\ Accepts(diff_id, Head(pending))
    /\ ~HasPermit(chan, channel_size)
    /\ ~chan.closed

\* C24: while the driver is in the for loop over a batch no request is in
\* flight; with entries of the batch still to visit it neither returns to
\* the loop test nor issues a request; while it is suspended in a send on a
\* full channel it takes no step at all; and a request is issued only from
\* the top of the loop, no entry of a batch left to visit.
C24_StallsWhileFull ==
    /\ [](pc = "publish" => query = NoQuery)
    /\ [][pc = "publish" /\ pending # << >>
            => pc' \in {"publish", "done"} /\ query' = NoQuery]_vars
    /\ [][Suspended
            => UNCHANGED << pc, pending, next_diff_id, query, diff_id, sent >>]_vars
    /\ [][pc # "inflight" /\ pc' = "inflight"
            => pc = "issue" /\ pending = << >>]_vars

\* The driver published a first batch and is suspended on an entry of a
\* later one: the consumer has pulled nothing and no request is in flight.
C24_Witness ==
    /\ Suspended
    /\ next_diff_id # cfg.diff_id
    /\ delivered = << >>
    /\ handle = "open"
    /\ query = NoQuery

\* C25 as stated: a request asks for block=1 exactly when the block flag of
\* the configuration is set and the request carries a diffid, be it the one
\* request of get() on the configuration or any request of its stream.
C25_BlockIffConfigured ==
    /\ Query(cfg).block <=> (cfg.block /\ cfg.diff_id # None)
    /\ pc = "inflight" => (query.block <=> (cfg.block /\ query.diffid # None))

\* C25 as amended: get() on the configuration asks for block=1 exactly when
\* its block flag is set and it has a diffid; a request of the stream asks
\* for block=1 exactly when it carries a diffid, whatever the block flag of
\* the configuration.
C25_BlockIffCursor ==
    /\ Query(cfg).block <=> (cfg.block /\ cfg.diff_id # None)
    /\ pc = "inflight" => (query.block <=> query.diffid # None)

\* A stream whose configuration has no block flag has a request in flight
\* that carries a diffid and block=1; get() on the configuration would not.
C25_Witness ==
    /\ pc = "inflight"
    /\ ~cfg.block
    /\ query.diffid # None
    /\ query.block
    /\ ~Query(cfg).block

\* C26: a stream has at most one request sent and not yet returned, and one
\* exactly while the driver awaits get(); a request is sent only from the
\* top of the loop, the one before it returned and no entry of its batch
\* left to visit; the cursor is written only by the driver, as a fetch or a
\* batch ends; and no step of the consumer (recv, close, drop) changes the
\* cursor, the driver's position or its request.
C26_SequentialSingleWriter ==
    /\ [](hist.outstanding <= 1)
    /\ [](hist.outstanding = 1 <=> pc = "inflight")
    /\ [][hist'.outstanding > hist.outstanding
            => pc = "issue" /\ pending = << >> /\ hist.outstanding = 0]_vars
    /\ [][next_diff_id' # next_diff_id
            => /\ pc \in {"inflight", "publish"}
               /\ pc' = "check"
               /\ UNCHANGED << handle, delivered, eos, chan >>]_vars
    /\ [][handle' # handle \/ delivered' # delivered \/ eos' # eos
            => UNCHANGED << next_diff_id, pc, query, diff_id, pending, sent >>]_vars

\* The second request of a stream is in flight: the first has returned, its
\* batch was published and moved the cursor, and the consumer has pulled
\* from it.
C26_Witness ==
    /\ pc = "inflight"
    /\ hist.outstanding = 1
    /\ next_diff_id # cfg.diff_id
    /\ delivered # << >>
    /\ sent # << >>

\* C27: on a stream piped through filter_stream, once the consumer has closed
\* the Receiver of the filter's output the filter task eventually ends
\* (dropping its source), and the driver of the stream eventually ends and
\* has no request in flight from then on.
C27_PipelineEndsOnClose ==
    /\ out.closed ~> (fpc = "done")
    /\ out.closed ~> [](pc = "done" /\ query = NoQuery)

\* C28: once the consumer has closed or dropped the Receiver of the progress
\* channel, the save-zip progress task sends at most one more progress
\* request, and it ends when the send of what that request returned fails.
C28_ProgressStopsOnClose ==
    /\ [](zip.pollsAC <= 1)
    /\ [][zip.pc = "send" /\ zip.chan.closed /\ zip'.pc # zip.pc
            => zip'.pc = "done"]_vars

\* The last progress of a sequence.
Last(s) == s[Len(s)]

\* C29: while the Receiver of the progress channel is open, the progress with
\* files = totalfiles can only be the last one fetched, the task goes from
\* it to its end by enqueueing it and sends no request afterwards; what was
\* enqueued is what was fetched, in order, but for the progress in hand; and
\* the consumer pulls what was enqueued, in order.
C29_StopsAfterFinalProgress ==
    /\ [](~zip.chan.closed
            => \A i \in 1..(Len(zip.fetched) - 1) :
                    ~RemainingIsZero(zip.fetched[i]))
    /\ [](~zip.chan.closed /\ zip.pc = "done"
            => /\ zip.sent # << >>
               /\ RemainingIsZero(Last(zip.sent))
               /\ zip.sent = zip.fetched)
    /\ [](~zip.chan.closed
            => /\ zip.sent = SubSeq(zip.fetched, 1, Len(zip.sent))
               /\ Len(zip.fetched) - Len(zip.sent) = Len(zip.hold)
                    + (IF zip.pc = "panicked" THEN 1 ELSE 0))
    /\ [](zip.handle # "dropped"
            => zip.delivered \o zip.chan.buf = zip.sent)
    /\ [][~zip.chan.closed /\ zip.pc = "send" /\ RemainingIsZero(Head(zip.hold))
                /\ zip'.pc # zip.pc
            => zip'.pc = "done" /\ zip'.sent = Append(zip.sent, Head(zip.hold))]_vars
    /\ [][zip.pc = "done" => zip'.pc = "done" /\ zip'.polls = zip.polls]_vars

\* The task ended after its third request, the first that returned a progress
\* with files = totalfiles, and the consumer, its Receiver open, has pulled
\* all three.
C29_Witness ==
    /\ zip.pc = "done"
    /\ zip.handle = "open"
    /\ zip.polls = 3
    /\ Len(zip.fetched) = 3
    /\ zip.delivered = zip.fetched
    /\ zip.eos

\* C30: for a client made with_username_and_password at most one logout
\* request is sent, and none while the program or a running driver holds a
\* clone of the client; the driver sends no request once the logout is sent;
\* and once every clone is dropped and the driver has ended, the logout
\* request is eventually sent.
C30_LogoutOnceAfterLastDrop ==
    /\ [](session.logouts <= 1)
    /\ [](session.state # "live" => session.clones = 0 /\ ~DriverHoldsClient)
    /\ [][session.logouts > 0 => pc' = pc /\ query' = query]_vars
    /\ (session.clones = 0 /\ ~DriverHoldsClient) ~> (session.logouts = 1)

====
